---- MODULE Spec2Model ----
(***************************************************************************)
(* Model of the RSI signal bot (src/bot.py): KlineFetcher.fetch_klines,    *)
(* RsiCalculator.calculate_rsi, Notifier.send_rsi_alert and the DiscordBot *)
(* handlers on_ready / check_rsi_and_notify / periodic_rsi_check, run by   *)
(* one asyncio event loop thread.                                          *)
(*                                                                         *)
(* Two specifications:                                                     *)
(*   Spec      the bot process: ready events, startup and hourly cycles,   *)
(*             the blocking fetch loop, the alert send;                    *)
(*   SpecCalc  calculate_rsi as a function of its argument, over every     *)
(*             kline payload of bounded size.                              *)
(***************************************************************************)
EXTENDS Integers, Sequences, FiniteSets, TLC

VARIABLES
    fetcher,    \* KlineFetcher fields: symbol, interval, max_retries, retry_after_seconds
    notifier,   \* Notifier fields: client (its login state), channel_id
    ready,      \* number of READY events the gateway has delivered to the bot
    handler,    \* handler[i]: position of the i-th on_ready invocation
    sched,      \* sched[i]: the AsyncIOScheduler created by the i-th on_ready
    cyc,        \* cyc[o]: the check_rsi_and_notify invocation owned by o
    running,    \* the coroutine that holds the event loop thread, or Nobody
    hour,       \* number of wall-clock hour boundaries (minute == 0) passed
    hbPending,  \* the gateway keep-alive has a heartbeat waiting for the loop
    lastAlert,  \* history: the alert the most recently ended cycle asked for
    calcPc,     \* SpecCalc: "call" before calculate_rsi runs, "returned" after
    calcIn,     \* SpecCalc: the klines argument
    calcOut     \* SpecCalc: how the call ended

vars == <<fetcher, notifier, ready, handler, sched, cyc, running, hour,
          hbPending, lastAlert, calcPc, calcIn, calcOut>>

botVars == <<fetcher, notifier, ready, handler, sched, cyc, running, hour,
             hbPending, lastAlert>>

calcVars == <<calcPc, calcIn, calcOut>>

(***************************************************************************)
(* Bounds of the model.                                                    *)
(***************************************************************************)
MaxReady == 2      \* READY events delivered (1 = login, more = reconnects)
MaxHours == 2      \* hour boundaries that pass
MaxLen == 3        \* candles in a SpecCalc payload
MaxClose == 3      \* closing prices 1..MaxClose in a SpecCalc payload

(***************************************************************************)
(* Python values.                                                          *)
(***************************************************************************)
None == [py |-> "None"]
PyInt(n) == [py |-> "int", v |-> n]
NaN == [f |-> "nan"]
Float(n) == [f |-> "num", v |-> n]

\* A rational num/den with den > 0 (the exact value of a finite float result).
Ratio(n, d) == [f |-> "ratio", num |-> n, den |-> d]

NoExc == "none"

Returned(v) == [exc |-> NoExc, ret |-> v]
Raised(e) == [exc |-> e, ret |-> None]

(***************************************************************************)
(* Kline payloads.  A close arrives as a string: a numeral, some other     *)
(* text, or it is absent from the candle.  "others" says whether the       *)
(* candle carries timestamp, open, high and low.                           *)
(***************************************************************************)
NumClose(c) == [kind |-> "num", val |-> c]
TextClose == [kind |-> "text"]
MissingClose == [kind |-> "missing"]

Candle(c) == [close |-> NumClose(c), others |-> TRUE]

\* The "result" object of an answer without a "list" ({} for an unknown symbol).
EmptyResult == [category |-> "linear"]
Klines(l) == [category |-> "linear", list |-> l]

(***************************************************************************)
(* RsiCalculator.calculate_rsi                                             *)
(***************************************************************************)
Window == 14

RECURSIVE Pow(_, _)
Pow(b, e) == IF e = 0 THEN 1 ELSE b * Pow(b, e - 1)

\* pd.DataFrame(klines_list, columns=[...]): an absent key becomes a NaN cell;
\* df["close"].astype(float): a numeral parses, NaN stays, other text raises.
AsFloat(w) ==
    CASE w.kind = "num" -> Returned(Float(w.val))
      [] w.kind = "missing" -> Returned(NaN)
      [] w.kind = "text" -> Raised("ValueError")

\* change = close.diff(1).fillna(0): the first row and every difference that
\* involves a NaN close are 0.
Change(closes, j) ==
    IF j = 1 \/ closes[j] = NaN \/ closes[j - 1] = NaN
    THEN 0
    ELSE closes[j].v - closes[j - 1].v

Up(closes, j) == IF Change(closes, j) > 0 THEN Change(closes, j) ELSE 0
Down(closes, j) == IF Change(closes, j) < 0 THEN 0 - Change(closes, j) ELSE 0

\* smma = ewm(alpha = 1/Window, adjust = True).mean(): at the last row n the
\* weight of row j is ((Window-1)/Window)^(n-j).  Scaled by Window^(n-1) the
\* weighted sums are integers; the common divisor cancels in rs.
RECURSIVE WeightedSum(_, _)
WeightedSum(moves, j) ==
    IF j = 0 THEN 0
    ELSE Pow(Window - 1, Len(moves) - j) * Pow(Window, j - 1) * moves[j]
         + WeightedSum(moves, j - 1)

\* stock_df["rsi_14"].iloc[-1]: rs = smma(up)/smma(down), rsi = 100 - 100/(1+rs).
\* 0/0 is NaN; x/0 is inf and gives 100; otherwise rsi = 100*P/(P+N).
LastRsi(closes) ==
    LET n == Len(closes)
        P == WeightedSum([j \in 1..n |-> Up(closes, j)], n)
        N == WeightedSum([j \in 1..n |-> Down(closes, j)], n)
    IN  IF P = 0 /\ N = 0 THEN NaN
        ELSE Ratio(100 * P, P + N)

\* int(rsi_value): truncation toward zero; int(NaN) raises ValueError.
ToInt_Rounding(x) ==
    IF x = NaN THEN Raised("ValueError")
    ELSE Returned(PyInt((2 * x.num + x.den) \div (2 * x.den)))

ToInt(x) ==
    IF x = NaN THEN Raised("ValueError")
    ELSE Returned(PyInt(x.num \div x.den))

\* Lines 104-124 without the enclosing try/except.
CalcBody_MinLength(klines) ==
    IF "list" \in DOMAIN klines
    THEN LET l == klines.list
             parsed == [j \in 1..Len(l) |-> AsFloat(l[j].close)]
         IN  IF l # <<>>
             THEN IF \E j \in 1..Len(l) : parsed[j].exc # NoExc
                  THEN Raised("ValueError")
                  ELSE IF Len(l) < Window + 1
                       THEN Returned(None)
                       ELSE ToInt(LastRsi([j \in 1..Len(l) |-> parsed[j].ret]))
             ELSE Returned(None)
    ELSE Returned(None)

CalcBody(klines) ==
    IF "list" \in DOMAIN klines
    THEN LET l == klines.list
             parsed == [j \in 1..Len(l) |-> AsFloat(l[j].close)]
         IN  IF l # <<>>
             THEN IF \E j \in 1..Len(l) : parsed[j].exc # NoExc
                  THEN Raised("ValueError")
                  ELSE ToInt(LastRsi([j \in 1..Len(l) |-> parsed[j].ret]))
             ELSE Returned(None)
    ELSE Returned(None)

\* try: ... except Exception: return None
calculate_rsi(klines) ==
    IF CalcBody(klines).exc # NoExc THEN Returned(None) ELSE CalcBody(klines)

(***************************************************************************)
(* SpecCalc: calculate_rsi applied to every payload of bounded size.       *)
(***************************************************************************)
CloseValues == 1..MaxClose

WireCloses == {NumClose(c) : c \in CloseValues} \cup {TextClose, MissingClose}

WireCandles == [close : WireCloses, others : BOOLEAN]

SeqsUpTo(S, n) == UNION {[1..k -> S] : k \in 0..n}

CalcInputs == {EmptyResult} \cup {Klines(l) : l \in SeqsUpTo(WireCandles, MaxLen)}

CalcCall ==
    /\ calcPc = "call"
    /\ calcOut' = calculate_rsi(calcIn)
    /\ calcPc' = "returned"
    /\ UNCHANGED <<calcIn, botVars>>

(***************************************************************************)
(* The bot process.                                                        *)
(***************************************************************************)
DefaultMaxRetries == 3
DefaultRetryAfterSeconds == 60
ChannelId == 1

Overbought == 70
Oversold == 30

Owners == [kind : {"startup", "job"}, i : 1..MaxReady]
Startup(i) == [kind |-> "startup", i |-> i]
Job(i) == [kind |-> "job", i |-> i]
Nobody == [kind |-> "nobody", i |-> 0]

\* Events of one fetch_klines call, in order.
Get == [ev |-> "get", arg |-> 0]
Resp(status) == [ev |-> "resp", arg |-> status]
NoResp == [ev |-> "error", arg |-> 0]

\* A 2xx answer whose JSON body has the value "result" under the key "result".
RespOk(result) == [ev |-> "resp", arg |-> 200, result |-> result]
Sleep(secs) == [ev |-> "sleep", arg |-> secs]

\* HTTP error statuses other than 429 that raise_for_status() turns into HTTPError.
OtherErrorStatuses == {404, 500}

\* A check_rsi_and_notify invocation that has not started or has ended.
Idle ==
    [pc |-> "idle", retries |-> 0, log |-> <<>>, klines |-> None,
     rsi |-> None, alert |-> None, exc |-> NoExc, calls |-> <<>>]

\* check_rsi_and_notify entered, fetch_klines entered: retries = 0.
Started_Spent ==
    [Idle EXCEPT !.pc = "loop", !.calls = <<"fetch_klines">>, !.retries = 1]

Started == [Idle EXCEPT !.pc = "loop", !.calls = <<"fetch_klines">>]

NoScheduler == [state |-> "none", due |-> "no", last |-> "none"]

\* The payloads the upstream answers with in Spec: no list, an empty list, and
\* series whose rsi_14 is NaN, 29, 30, 48, 70 and 71.
Series(closes) == Klines([j \in 1..Len(closes) |-> Candle(closes[j])])

UpstreamBodies ==
    {EmptyResult, Klines(<<>>), Series(<<100, 100>>),
     Series(<<14, 1, 6>>), Series(<<6, 1, 3>>), Series(<<1, 2, 1>>),
     Series(<<1, 14, 9>>), Series(<<1, 9, 6>>)}

\* time.sleep() returns only after the delay and keeps the thread: the coroutine
\* that called it still holds the event loop.
RunningDuringSleep_Async(o) == Nobody

RunningDuringSleep(o) == o

\* while retries < self.max_retries: ... / return None
LoopTest_OffByOne(c) ==
    IF c.retries <= fetcher.max_retries
    THEN [c EXCEPT !.pc = "request", !.log = Append(c.log, Get)]
    ELSE [c EXCEPT !.pc = "fetched", !.klines = None]

LoopTest_Restart(c) ==
    IF c.retries < fetcher.max_retries
    THEN [c EXCEPT !.pc = "request", !.log = Append(c.log, Get)]
    ELSE [c EXCEPT !.pc = "loop", !.retries = 0, !.log = <<>>]

LoopTest(c) ==
    IF c.retries < fetcher.max_retries
    THEN [c EXCEPT !.pc = "request", !.log = Append(c.log, Get)]
    ELSE [c EXCEPT !.pc = "fetched", !.klines = None]

\* except requests.exceptions.HTTPError: 429 sleeps, any other status re-raises.
OnHttpError_RetryAll(c, status) ==
    [c EXCEPT !.pc = "sleep",
              !.log = c.log \o <<Resp(status), Sleep(fetcher.retry_after_seconds)>>]

OnHttpError(c, status) ==
    IF status = 429
    THEN [c EXCEPT !.pc = "sleep",
                   !.log = c.log \o <<Resp(status), Sleep(fetcher.retry_after_seconds)>>]
    ELSE [c EXCEPT !.pc = "raised", !.exc = "HTTPError",
                   !.log = Append(c.log, Resp(status))]

\* return data["result"]
FetchResult_ListOrNone(result) ==
    IF "list" \in DOMAIN result THEN result ELSE None

FetchResult(result) == result

\* f"{text}{rsi}": the message text followed by the decimal digits of rsi.
Message(text, rsi) == [py |-> "str", text |-> text, rsi |-> rsi]

\* The alert check_rsi_and_notify asks the notifier to send for an integer rsi.
Decision_NonStrict(rsi) ==
    IF rsi >= Overbought THEN Message("RSI is overbought at ", rsi)
    ELSE IF rsi <= Oversold THEN Message("RSI is oversold at ", rsi)
    ELSE None

Decision(rsi) ==
    IF rsi > Overbought THEN Message("RSI is overbought at ", rsi)
    ELSE IF rsi < Oversold THEN Message("RSI is oversold at ", rsi)
    ELSE None

\* A discord.Client caches channels only once it has logged in and received
\* READY; the bot is the only client that bot.run() logs in.
LoggedIn(client) == client = "bot" /\ ready > 0

GetChannel(client, id) ==
    IF LoggedIn(client) THEN [channel |-> id] ELSE None

(***************************************************************************)
(* Initial state: the objects built under __main__, before bot.run().      *)
(***************************************************************************)
InitBot ==
    /\ fetcher = [symbol |-> "SOLUSDT", interval |-> "60",
                  max_retries |-> DefaultMaxRetries,
                  retry_after_seconds |-> DefaultRetryAfterSeconds]
    /\ notifier = [client |-> "other", channel_id |-> ChannelId]
    /\ ready = 0
    /\ handler = [i \in 1..MaxReady |-> "none"]
    /\ sched = [i \in 1..MaxReady |-> NoScheduler]
    /\ cyc = [o \in Owners |-> Idle]
    /\ running = Nobody
    /\ hour = 0
    /\ hbPending = FALSE
    /\ lastAlert = None

Init ==
    /\ InitBot
    /\ calcPc = "unused"
    /\ calcIn = None
    /\ calcOut = Returned(None)

InitCalc ==
    /\ InitBot
    /\ calcPc = "call"
    /\ calcIn \in CalcInputs
    /\ calcOut = Returned(None)

(***************************************************************************)
(* Actions of the bot process.                                             *)
(***************************************************************************)
\* The gateway delivers READY: on_ready runs up to the first blocking call of
\* its check cycle.
OnReady(i) ==
    /\ running = Nobody
    /\ i = ready + 1
    /\ i <= MaxReady
    /\ ready' = i
    /\ handler' = [handler EXCEPT ![i] = "cycle"]
    /\ cyc' = [cyc EXCEPT ![Startup(i)] = Started]
    /\ running' = Startup(i)
    /\ UNCHANGED <<fetcher, notifier, sched, hour, hbPending, calcVars, lastAlert>>

\* The loop test of fetch_klines; when it passes, requests.get() is issued.
FetchLoop(o) ==
    /\ running = o
    /\ cyc[o].pc = "loop"
    /\ cyc' = [cyc EXCEPT ![o] = LoopTest(cyc[o])]
    /\ UNCHANGED <<fetcher, notifier, ready, handler, sched, running, hour,
                   hbPending, calcVars, lastAlert>>

\* 2xx answer with a JSON body: return data["result"].
RespondOk(o, body) ==
    /\ running = o
    /\ cyc[o].pc = "request"
    /\ cyc' = [cyc EXCEPT ![o] = [@ EXCEPT !.pc = "fetched",
                                           !.klines = FetchResult(body),
                                           !.log = Append(@, RespOk(body))]]
    /\ UNCHANGED <<fetcher, notifier, ready, handler, sched, running, hour,
                   hbPending, calcVars, lastAlert>>

\* 4xx/5xx answer: raise_for_status() raises HTTPError.
RespondHttpError(o, status) ==
    /\ running = o
    /\ cyc[o].pc = "request"
    /\ cyc' = [cyc EXCEPT ![o] = OnHttpError(cyc[o], status)]
    /\ running' = IF cyc'[o].pc = "sleep" THEN RunningDuringSleep(o) ELSE o
    /\ UNCHANGED <<fetcher, notifier, ready, handler, sched, hour, hbPending,
                   calcVars, lastAlert>>

\* Network error, body that is not JSON, body without "result": except Exception.
RespondError_NoCount(o) ==
    /\ running = o
    /\ cyc[o].pc = "request"
    /\ cyc' = [cyc EXCEPT ![o] = [@ EXCEPT !.pc = "loop",
                                           !.log = Append(@, NoResp)]]
    /\ UNCHANGED <<fetcher, notifier, ready, handler, sched, running, hour,
                   hbPending, calcVars, lastAlert>>

RespondError(o) ==
    /\ running = o
    /\ cyc[o].pc = "request"
    /\ cyc' = [cyc EXCEPT ![o] = [@ EXCEPT !.pc = "loop", !.retries = @ + 1,
                                           !.log = Append(@, NoResp)]]
    /\ UNCHANGED <<fetcher, notifier, ready, handler, sched, running, hour,
                   hbPending, calcVars, lastAlert>>

\* time.sleep(self.retry_after_seconds) returns; retries += 1.
Wake(o) ==
    /\ running = RunningDuringSleep(o)
    /\ cyc[o].pc = "sleep"
    /\ cyc' = [cyc EXCEPT ![o] = [@ EXCEPT !.pc = "loop", !.retries = @ + 1]]
    /\ running' = o
    /\ UNCHANGED <<fetcher, notifier, ready, handler, sched, hour, hbPending,
                   calcVars, lastAlert>>

\* calculate_rsi is a function of its argument alone: its value on each
\* upstream payload.
RsiOfBody == [b \in UpstreamBodies |-> calculate_rsi(b)]

\* check_rsi_and_notify after fetch_klines has returned (its locals are gone):
\* klines None ends the cycle, otherwise calculate_rsi is called.
AfterFetch_NoGuard(c) ==
    IF c.klines = None
    THEN [c EXCEPT !.pc = "computed", !.retries = 0, !.log = <<>>,
                   !.calls = Append(c.calls, "calculate_rsi")]
    ELSE LET r == calculate_rsi(c.klines)
         IN  IF r.exc # NoExc
             THEN [c EXCEPT !.pc = "raised", !.retries = 0, !.log = <<>>,
                            !.calls = Append(c.calls, "calculate_rsi"),
                            !.exc = r.exc]
             ELSE [c EXCEPT !.pc = "computed", !.retries = 0, !.log = <<>>,
                            !.calls = Append(c.calls, "calculate_rsi"),
                            !.rsi = r.ret]

AfterFetch(c) ==
    LET r == IF c.klines \in UpstreamBodies
             THEN RsiOfBody[c.klines]
             ELSE calculate_rsi(c.klines)
    IN  IF c.klines = None
        THEN [c EXCEPT !.pc = "returned", !.retries = 0, !.log = <<>>]
        ELSE IF r.exc # NoExc
        THEN [c EXCEPT !.pc = "raised", !.retries = 0, !.log = <<>>,
                       !.calls = Append(c.calls, "calculate_rsi"),
                       !.exc = r.exc]
        ELSE [c EXCEPT !.pc = "computed", !.retries = 0, !.log = <<>>,
                       !.calls = Append(c.calls, "calculate_rsi"),
                       !.rsi = r.ret]

Compute(o) ==
    /\ running = o
    /\ cyc[o].pc = "fetched"
    /\ cyc' = [cyc EXCEPT ![o] = AfterFetch(cyc[o])]
    /\ UNCHANGED <<fetcher, notifier, ready, handler, sched, running, hour,
                   hbPending, calcVars, lastAlert>>

\* The threshold test on rsi.
Decide_Dedup(o) ==
    /\ running = o
    /\ cyc[o].pc = "computed"
    /\ cyc' = [cyc EXCEPT ![o] =
                 IF cyc[o].rsi = None THEN [@ EXCEPT !.pc = "returned"]
                 ELSE IF Decision(cyc[o].rsi.v) \in {None, lastAlert}
                 THEN [@ EXCEPT !.pc = "returned"]
                 ELSE [@ EXCEPT !.pc = "notify", !.alert = Decision(cyc[o].rsi.v)]]
    /\ UNCHANGED <<fetcher, notifier, ready, handler, sched, running, hour,
                   hbPending, calcVars, lastAlert>>

Decide(o) ==
    /\ running = o
    /\ cyc[o].pc = "computed"
    /\ cyc' = [cyc EXCEPT ![o] =
                 IF cyc[o].rsi = None THEN [@ EXCEPT !.pc = "returned"]
                 ELSE IF Decision(cyc[o].rsi.v) = None
                 THEN [@ EXCEPT !.pc = "returned"]
                 ELSE [@ EXCEPT !.pc = "notify", !.alert = Decision(cyc[o].rsi.v)]]
    /\ UNCHANGED <<fetcher, notifier, ready, handler, sched, running, hour,
                   hbPending, calcVars, lastAlert>>

\* Notifier.send_rsi_alert: channel = self.client.get_channel(self.channel_id);
\* await channel.send(message).  With channel None the attribute lookup raises
\* before anything is awaited; otherwise the coroutine gives up the loop until
\* the send ends (delivered, or an exception of the chat client).
SendRsiAlert_Twice(o) ==
    /\ cyc[o].pc = "notify"
    /\ running = o
    /\ cyc' = [cyc EXCEPT ![o] =
                 IF Len(@.calls) < 4
                 THEN [@ EXCEPT !.calls = Append(@, "send_rsi_alert")]
                 ELSE [@ EXCEPT !.pc = "raised", !.exc = "AttributeError"]]
    /\ UNCHANGED <<fetcher, notifier, ready, handler, sched, running, hour,
                   hbPending, calcVars, lastAlert>>

SendRsiAlert(o) ==
    /\ cyc[o].pc \in {"notify", "sending"}
    /\ IF cyc[o].pc = "notify"
       THEN /\ running = o
            /\ IF GetChannel(notifier.client, notifier.channel_id) = None
               THEN /\ cyc' = [cyc EXCEPT ![o] =
                                 [@ EXCEPT !.pc = "raised", !.exc = "AttributeError",
                                           !.calls = Append(@, "send_rsi_alert")]]
                    /\ running' = o
               ELSE /\ cyc' = [cyc EXCEPT ![o] =
                                 [@ EXCEPT !.pc = "sending",
                                           !.calls = Append(@, "send_rsi_alert")]]
                    /\ running' = Nobody
       ELSE /\ running = Nobody
            /\ \E ok \in BOOLEAN :
                 cyc' = [cyc EXCEPT ![o] =
                           IF ok THEN [@ EXCEPT !.pc = "returned"]
                           ELSE [@ EXCEPT !.pc = "raised", !.exc = "HTTPException"]]
            /\ running' = o
    /\ UNCHANGED <<fetcher, notifier, ready, handler, sched, hour, hbPending,
                   calcVars, lastAlert>>

\* The startup cycle ends and on_ready goes on: after a normal return it calls
\* asyncio.create_task(self.periodic_rsi_check()); an exception leaves on_ready
\* at the await and the client logs it.
OnReadyResume(i) ==
    /\ running = Startup(i)
    /\ cyc[Startup(i)].pc \in {"returned", "raised"}
    /\ handler' = [handler EXCEPT ![i] =
                     IF cyc[Startup(i)].pc = "returned" THEN "done" ELSE "failed"]
    /\ sched' = [sched EXCEPT ![i] =
                   IF cyc[Startup(i)].pc = "returned"
                   THEN [@ EXCEPT !.state = "task"] ELSE @]
    /\ cyc' = [cyc EXCEPT ![Startup(i)] = Idle]
    /\ running' = Nobody
    /\ lastAlert' = cyc[Startup(i)].alert
    /\ UNCHANGED <<fetcher, notifier, ready, hour, hbPending, calcVars>>

\* The periodic_rsi_check task: a new AsyncIOScheduler with one cron job
\* (minute = 0), started.
PeriodicRsiCheck(i) ==
    /\ running = Nobody
    /\ sched[i].state = "task"
    /\ sched' = [sched EXCEPT ![i] = [@ EXCEPT !.state = "armed"]]
    /\ UNCHANGED <<fetcher, notifier, ready, handler, cyc, running, hour,
                   hbPending, calcVars, lastAlert>>

\* The wall clock reaches minute == 0.  Every armed scheduler has a run due; it
\* is late when the loop thread is held at that moment.
HourBoundary ==
    /\ hour < MaxHours
    /\ hour' = hour + 1
    /\ sched' = [i \in 1..MaxReady |->
                   IF sched[i].state = "armed" /\ sched[i].due = "no"
                   THEN [sched[i] EXCEPT !.due =
                           IF running = Nobody THEN "ontime" ELSE "late"]
                   ELSE sched[i]]
    /\ UNCHANGED <<fetcher, notifier, ready, handler, cyc, running, hbPending,
                   calcVars, lastAlert>>

\* The scheduler wakes on the loop and submits the due run; a job whose earlier
\* instance has not ended is skipped (max_instances = 1).
JobFire(i) ==
    /\ running = Nobody
    /\ sched[i].state = "armed"
    /\ sched[i].due # "no"
    /\ IF cyc[Job(i)].pc = "idle"
       THEN /\ cyc' = [cyc EXCEPT ![Job(i)] = Started]
            /\ running' = Job(i)
            /\ sched' = [sched EXCEPT ![i] = [@ EXCEPT !.due = "no"]]
       ELSE /\ sched' = [sched EXCEPT ![i] = [@ EXCEPT !.due = "no",
                                                       !.last = "skipped"]]
            /\ UNCHANGED <<cyc, running>>
    /\ UNCHANGED <<fetcher, notifier, ready, handler, hour, hbPending, calcVars, lastAlert>>

\* The scheduler wakes later than the job's misfire grace time: the run is missed.
JobMisfire(i) ==
    /\ running = Nobody
    /\ sched[i].state = "armed"
    /\ sched[i].due = "late"
    /\ sched' = [sched EXCEPT ![i] = [@ EXCEPT !.due = "no", !.last = "missed"]]
    /\ UNCHANGED <<fetcher, notifier, ready, handler, cyc, running, hour,
                   hbPending, calcVars, lastAlert>>

\* A scheduled cycle ends: the scheduler's executor logs the outcome.
JobEnd(i) ==
    /\ running = Job(i)
    /\ cyc[Job(i)].pc \in {"returned", "raised"}
    /\ sched' = [sched EXCEPT ![i] =
                   [@ EXCEPT !.last =
                      IF cyc[Job(i)].pc = "returned" THEN "ok" ELSE "error"]]
    /\ cyc' = [cyc EXCEPT ![Job(i)] = Idle]
    /\ running' = Nobody
    /\ lastAlert' = cyc[Job(i)].alert
    /\ UNCHANGED <<fetcher, notifier, ready, handler, hour, hbPending, calcVars>>

\* The gateway keep-alive asks the loop to send a heartbeat.
HeartbeatDue ==
    /\ ready > 0
    /\ ~hbPending
    /\ hbPending' = TRUE
    /\ UNCHANGED <<fetcher, notifier, ready, handler, sched, cyc, running, hour,
                   calcVars, lastAlert>>

\* The event loop runs the heartbeat send.
HeartbeatSend ==
    /\ running = Nobody
    /\ hbPending
    /\ hbPending' = FALSE
    /\ UNCHANGED <<fetcher, notifier, ready, handler, sched, cyc, running, hour,
                   calcVars, lastAlert>>

Next ==
    \/ \E i \in 1..MaxReady : OnReady(i)
    \/ \E o \in Owners : FetchLoop(o)
    \/ \E o \in Owners : \E body \in UpstreamBodies : RespondOk(o, body)
    \/ \E o \in Owners : \E status \in {429} \cup OtherErrorStatuses :
          RespondHttpError(o, status)
    \/ \E o \in Owners : RespondError(o)
    \/ \E o \in Owners : Wake(o)
    \/ \E o \in Owners : Compute(o)
    \/ \E o \in Owners : Decide(o)
    \/ \E o \in Owners : SendRsiAlert(o)
    \/ \E i \in 1..MaxReady : OnReadyResume(i)
    \/ \E i \in 1..MaxReady : PeriodicRsiCheck(i)
    \/ HourBoundary
    \/ \E i \in 1..MaxReady : JobFire(i)
    \/ \E i \in 1..MaxReady : JobMisfire(i)
    \/ \E i \in 1..MaxReady : JobEnd(i)
    \/ HeartbeatDue
    \/ HeartbeatSend

Spec == Init /\ [][Next]_vars

NextCalc == CalcCall

SpecCalc == InitCalc /\ [][NextCalc]_vars

(***************************************************************************)
(* Properties.                                                             *)
(***************************************************************************)
Gets(log) == Cardinality({k \in 1..Len(log) : log[k] = Get})

\* Every request of the log has been answered, and each answer was status 429.
AllAnswered429(log) ==
    /\ Gets(log) > 0
    /\ \A k \in 1..Len(log) :
         log[k] = Get => k < Len(log) /\ log[k + 1] = Resp(429)

InFetch(c) == c.pc \in {"loop", "request", "sleep"}

\* C1: a fetch_klines call whose requests were all answered 429 and that has
\* ended has returned None without raising, has issued exactly max_retries
\* requests, and slept retry_after_seconds after each request that was followed
\* by another one.
C1_RateLimitedExhausts ==
    \A o \in Owners :
        LET c == cyc[o]
        IN  (AllAnswered429(c.log) /\ ~InFetch(c)) =>
              /\ c.pc = "fetched"
              /\ c.klines = None
              /\ c.exc = NoExc
              /\ Gets(c.log) = fetcher.max_retries
              /\ \A k \in 1..Len(c.log) :
                   (c.log[k] = Get /\ \E m \in (k + 1)..Len(c.log) : c.log[m] = Get)
                     => /\ c.log[k + 2] = Sleep(fetcher.retry_after_seconds)
                        /\ c.log[k + 3] = Get

C1_Witness ==
    \E o \in Owners :
        /\ cyc[o].pc = "fetched"
        /\ AllAnswered429(cyc[o].log)
        /\ cyc[o].klines = None

\* C2: an answer with an HTTP error status other than 429 ends the fetch call
\* in the same step with HTTPError, adds no sleep to the call's events, and the
\* invocation then does nothing but end: no request and no sleep follow.
C2_OtherHttpErrorRaisesAtOnce ==
    [][\A o \in Owners :
         /\ \A s \in OtherErrorStatuses :
              (/\ cyc[o].pc = "request"
               /\ Len(cyc'[o].log) > Len(cyc[o].log)
               /\ cyc'[o].log[Len(cyc[o].log) + 1] = Resp(s))
                => /\ cyc'[o].log = Append(cyc[o].log, Resp(s))
                   /\ cyc'[o].pc = "raised"
                   /\ cyc'[o].exc = "HTTPError"
                   /\ cyc'[o].retries = cyc[o].retries
         /\ cyc[o].exc = "HTTPError" => cyc'[o] \in {cyc[o], Idle}]_vars

C2_Witness ==
    \E o \in Owners :
        /\ cyc[o].pc = "raised"
        /\ cyc[o].exc = "HTTPError"
        /\ cyc[o].retries > 0

\* C3: no exception of a check cycle reaches on_ready or the scheduler.
C3_NoExceptionEscapes ==
    \A i \in 1..MaxReady : handler[i] # "failed" /\ sched[i].last # "error"

\* C4: once an on_ready invocation has run its startup cycle to its end,
\* whatever the outcome, and the loop has had a turn to run the task it
\* created, every hour boundary makes a run of the hourly job due.
C4_HourlyAfterReady ==
    [][(/\ hour' = hour + 1
        /\ \E i \in 1..MaxReady :
             handler[i] \in {"done", "failed"} /\ sched[i].state # "task")
         => \E i \in 1..MaxReady : sched'[i].due # "no"]_vars

\* C5: at most one check_rsi_and_notify invocation is in flight.
C5_OneCycleInFlight ==
    Cardinality({o \in Owners : cyc[o].pc # "idle"}) <= 1

\* An hour boundary has passed while a cycle was in flight and its run is due.
C5_Witness ==
    \E i \in 1..MaxReady : \E o \in Owners :
        sched[i].due = "late" /\ cyc[o].pc # "idle"

\* C6: while a cycle waits in the 429 backoff, the event loop can send a
\* heartbeat that is waiting.
C6_LoopServedDuringBackoff ==
    \A o \in Owners :
        (cyc[o].pc = "sleep" /\ hbPending) => ENABLED HeartbeatSend

DecidedPcs == {"notify", "sending", "returned", "raised"}

\* C7: once a cycle has decided on an integer rsi, the alert it requests is
\* "RSI is overbought at {rsi}" when rsi > 70, "RSI is oversold at {rsi}" when
\* rsi < 30, and none when 30 <= rsi <= 70.
C7_StrictThresholds ==
    \A o \in Owners :
        LET c == cyc[o]
        IN  (c.pc \in DecidedPcs /\ c.rsi # None) =>
              /\ c.rsi.v > 70 => c.alert = [py |-> "str", text |-> "RSI is overbought at ", rsi |-> c.rsi.v]
              /\ c.rsi.v < 30 => c.alert = [py |-> "str", text |-> "RSI is oversold at ", rsi |-> c.rsi.v]
              /\ (30 <= c.rsi.v /\ c.rsi.v <= 70) => c.alert = None /\ c.pc = "returned"

C7_Witness ==
    \E o \in Owners :
        /\ cyc[o].pc = "returned"
        /\ cyc[o].rsi = PyInt(70)
        /\ cyc[o].alert = None

HasCandles(k) == "list" \in DOMAIN k /\ k.list # <<>>

\* Every candle has all its fields and a numeral as close.
WellFormed(k) ==
    /\ HasCandles(k)
    /\ \A j \in 1..Len(k.list) : k.list[j].close.kind = "num" /\ k.list[j].others

\* No close differs from the close before it.
Flat(k) ==
    \A j \in 2..Len(k.list) : k.list[j].close = k.list[j - 1].close

\* C8: calculate_rsi never raises, and returns None for an input without
\* "list", an empty list, and a list with a candle that lacks a field or has a
\* non-numeric close.
C8_MalformedGivesNone ==
    calcPc = "returned" =>
      /\ calcOut.exc = NoExc
      /\ ~WellFormed(calcIn) => calcOut.ret = None

\* C9 as claimed: a well-formed series of fewer than 15 closes gives None.
C9_ShortSeriesGivesNone ==
    (calcPc = "returned" /\ WellFormed(calcIn) /\ Len(calcIn.list) < Window + 1)
      => calcOut.ret = None

\* C9 as amended: calculate_rsi does not look at the number of closes; on a
\* well-formed series of fewer than 15 closes it returns None exactly when no
\* close differs from the one before it, and an integer otherwise.
C9_ShortSeriesComputed ==
    (calcPc = "returned" /\ WellFormed(calcIn) /\ Len(calcIn.list) < Window + 1)
      => /\ calcOut.exc = NoExc
         /\ calcOut.ret = None <=> Flat(calcIn)
         /\ calcOut.ret # None => calcOut.ret.py = "int"

C9_Witness ==
    /\ calcPc = "returned"
    /\ WellFormed(calcIn)
    /\ Len(calcIn.list) = 2
    /\ calcOut.ret = PyInt(100)

\* The exact last value of the indicator for a well-formed series.
Indicator(k) == LastRsi([j \in 1..Len(k.list) |-> Float(k.list[j].close.val)])

\* C10 as claimed: every well-formed series of two or more closes gives an
\* integer in 0..100.
C10_AlwaysANumber ==
    (calcPc = "returned" /\ WellFormed(calcIn) /\ Len(calcIn.list) >= 2)
      => /\ calcOut.ret # None
         /\ calcOut.ret.v \in 0..100

\* C10 as amended: for a well-formed series of two or more closes that are not
\* all equal, calculate_rsi returns the last indicator value truncated to an
\* integer, which lies in 0..100; when all closes are equal it returns None.
C10_TruncatedRsi ==
    (calcPc = "returned" /\ WellFormed(calcIn) /\ Len(calcIn.list) >= 2)
      => IF Flat(calcIn)
         THEN calcOut = Returned(None)
         ELSE /\ calcOut.exc = NoExc
              /\ calcOut.ret # None
              /\ calcOut.ret.v \in 0..100
              /\ calcOut.ret.v * Indicator(calcIn).den <= Indicator(calcIn).num
              /\ Indicator(calcIn).num < (calcOut.ret.v + 1) * Indicator(calcIn).den

\* A series whose indicator value has a fraction above one half.
C10_Witness ==
    /\ calcPc = "returned"
    /\ WellFormed(calcIn)
    /\ Len(calcIn.list) >= 2
    /\ ~Flat(calcIn)
    /\ calcOut.ret # None
    /\ 2 * (Indicator(calcIn).num - calcOut.ret.v * Indicator(calcIn).den)
         > Indicator(calcIn).den

Last(log) == log[Len(log)]

\* C11: a 2xx answer with a "result" ends the fetch call in the step that
\* receives it, whatever the number of attempts used: the call returns that
\* "result" value itself, which is not None (also for the object without
\* "list"), nothing is added to the call's events after the answer, and a cycle
\* that received the object without "list" goes on to end with no alert.
C11_SuccessReturnsResult ==
    \A o \in Owners :
        LET c == cyc[o]
        IN  /\ \A k \in 1..Len(c.log) :
                 (c.log[k].ev = "resp" /\ c.log[k].arg = 200) =>
                    /\ k = Len(c.log)
                    /\ c.pc = "fetched"
                    /\ c.klines = c.log[k].result
                    /\ c.klines # None
                    /\ c.exc = NoExc
            /\ (c.klines = EmptyResult /\ c.pc # "fetched") =>
                    /\ c.pc \in {"computed", "returned"}
                    /\ c.rsi = None
                    /\ c.alert = None
                    /\ c.exc = NoExc

C11_Witness ==
    \E o \in Owners :
        /\ cyc[o].pc = "returned"
        /\ cyc[o].klines = EmptyResult
        /\ cyc[o].alert = None

(***************************************************************************)
(* SpecLive: Spec with the scheduling the runtime gives.  A coroutine that  *)
(* holds the loop thread keeps executing, and every HTTP request and every  *)
(* chat send returns or fails: some step of the cycle in flight is taken.   *)
(***************************************************************************)
CycleStep ==
    \/ \E o \in Owners : FetchLoop(o)
    \/ \E o \in Owners : \E body \in UpstreamBodies : RespondOk(o, body)
    \/ \E o \in Owners : \E status \in {429} \cup OtherErrorStatuses :
          RespondHttpError(o, status)
    \/ \E o \in Owners : RespondError(o)
    \/ \E o \in Owners : Wake(o)
    \/ \E o \in Owners : Compute(o)
    \/ \E o \in Owners : Decide(o)
    \/ \E o \in Owners : SendRsiAlert(o)
    \/ \E i \in 1..MaxReady : OnReadyResume(i)
    \/ \E i \in 1..MaxReady : JobEnd(i)

SpecLive == Spec /\ WF_vars(CycleStep)

\* C12: every check cycle that starts ends: its invocation returns to Idle.
C12_CycleReturnsToIdle ==
    \A o \in Owners : (cyc[o].pc # "idle") ~> (cyc[o].pc = "idle")

\* A cycle that has used its whole retry budget is in flight.
C12_Witness ==
    \E i \in 1..MaxReady :
        /\ handler[i] = "failed"
        /\ cyc[Startup(i)] = Idle
        /\ sched[i].state = "none"

\* Answers of the log that used up an attempt: 429 answers and failures that
\* are not HTTP errors.
Failures(log) ==
    Cardinality({k \in 1..Len(log) : log[k] = Resp(429) \/ log[k] = NoResp})

\* C13: a fetch_klines call never issues more than max_retries requests; its
\* attempt counter equals the number of 429 answers and non-HTTP failures
\* received (the 429 being counted when its sleep ends); a non-HTTP failure is
\* followed by the next request with no sleep in between; and a call that ends
\* without a 2xx answer and without an HTTP error other than 429 has used
\* max_retries requests and returns None without raising.
C13_BoundedRetries ==
    \A o \in Owners :
        LET c == cyc[o]
        IN  /\ Gets(c.log) <= fetcher.max_retries
            /\ c.pc \in {"loop", "request"} => c.retries = Failures(c.log)
            /\ c.pc = "sleep" => c.retries + 1 = Failures(c.log)
            /\ \A k \in 1..Len(c.log) :
                 (c.log[k] = NoResp /\ k < Len(c.log)) => c.log[k + 1] = Get
            /\ (c.pc = "fetched" /\ c.klines = None) =>
                 /\ Gets(c.log) = fetcher.max_retries
                 /\ Failures(c.log) = fetcher.max_retries
                 /\ c.exc = NoExc

\* A call that spent its budget on a mix of 429 answers and other failures.
C13_Witness ==
    \E o \in Owners :
        /\ cyc[o].pc = "fetched"
        /\ cyc[o].klines = None
        /\ \E k \in 1..Len(cyc[o].log) : cyc[o].log[k] = NoResp
        /\ \E k \in 1..Len(cyc[o].log) : cyc[o].log[k] = Resp(429)

\* The calls of one check_rsi_and_notify run, in the order of its statements.
CycleCalls == <<"fetch_klines", "calculate_rsi", "send_rsi_alert">>

IsPrefix(s, t) == Len(s) <= Len(t) /\ \A k \in 1..Len(s) : s[k] = t[k]

\* C14: in every step of every cycle the calls made so far are a prefix of
\* fetch_klines, calculate_rsi, send_rsi_alert (each at most once, in that
\* order); calculate_rsi is called only once fetch_klines has returned; the
\* threshold decision is taken only once calculate_rsi has returned; and after
\* send_rsi_alert has been called the cycle does nothing but end.
C14_StepsOrdered ==
    [][\A o \in Owners :
         LET c == cyc[o]
             d == cyc'[o]
         IN  /\ IsPrefix(d.calls, CycleCalls)
             /\ d.calls # c.calls =>
                  \/ d = Idle
                  \/ Len(d.calls) = Len(c.calls) + 1
             /\ Len(d.calls) = 2 /\ Len(c.calls) = 1 =>
                  c.pc = "fetched" /\ c.klines # None
             /\ d.alert # c.alert /\ d.alert # None =>
                  c.pc = "computed" /\ Len(c.calls) = 2 /\ c.rsi # None
             /\ Len(d.calls) = 3 /\ Len(c.calls) = 2 =>
                  c.pc = "notify" /\ c.alert # None
             /\ Len(c.calls) = 3 /\ d # c =>
                  \/ d = Idle
                  \/ /\ c.pc = "sending"
                     /\ d.pc \in {"returned", "raised"}
                     /\ d.calls = c.calls
      ]_vars

\* A cycle that made all three calls.
C14_Witness ==
    \E o \in Owners :
        /\ cyc[o].calls = CycleCalls
        /\ cyc[o].pc \in {"returned", "raised"}

AfterFetchPcs == {"fetched", "computed", "notify", "sending", "returned", "raised"}

\* C15: a cycle whose fetch_klines returned None makes no call but
\* fetch_klines, requests no alert and returns normally; a cycle whose
\* calculate_rsi returned None does not call send_rsi_alert, requests no alert
\* and returns normally.
C15_NothingToReport ==
    \A o \in Owners :
        LET c == cyc[o]
        IN  /\ (c.pc \in AfterFetchPcs /\ c.klines = None /\ c.exc = NoExc) =>
                 /\ c.calls = <<"fetch_klines">>
                 /\ c.alert = None
                 /\ c.pc \in {"fetched", "returned"}
            /\ (c.pc \in AfterFetchPcs /\ Len(c.calls) >= 2 /\ c.rsi = None
                  /\ c.exc = NoExc) =>
                 /\ c.calls = <<"fetch_klines", "calculate_rsi">>
                 /\ c.alert = None
                 /\ c.pc \in {"computed", "returned"}

\* A cycle that returned normally after its fetch gave None.
C15_Witness ==
    \E o \in Owners :
        /\ cyc[o].pc = "returned"
        /\ cyc[o].klines = None
        /\ cyc[o].calls = <<"fetch_klines">>

\* C16: the alert of a cycle that has decided is a function of the rsi of that
\* cycle alone, whatever alert the cycle before it requested (lastAlert); in
\* particular a cycle with rsi > 70 or rsi < 30 requests its alert also when
\* the cycle before it requested the same alert.
C16_NoMemory ==
    \A o \in Owners :
        LET c == cyc[o]
        IN  c.pc \in DecidedPcs =>
              c.alert = IF c.rsi = None THEN None ELSE Decision(c.rsi.v)

\* A cycle that requests the alert the cycle before it requested.
C16_Witness ==
    \E o \in Owners :
        /\ cyc[o].pc = "notify"
        /\ cyc[o].alert # None
        /\ cyc[o].alert = lastAlert

\* C17: no step changes the fetcher's fields, and every cycle that starts
\* enters fetch_klines with retries = 0 and no request issued, so with
\* max_retries attempts to come.
C17_FetcherFrame ==
    [][/\ fetcher' = fetcher
       /\ \A o \in Owners :
            (cyc[o].pc = "idle" /\ cyc'[o].pc # "idle") =>
              /\ cyc'[o].pc = "loop"
              /\ cyc'[o].retries = 0
              /\ cyc'[o].log = <<>>
      ]_vars

\* A call in its first attempt after an earlier call exhausted its budget and
\* another raised.
C17_Witness ==
    \E o \in Owners :
        /\ cyc[o].pc = "request"
        /\ cyc[o].retries = 0
        /\ Gets(cyc[o].log) = 1
        /\ \E i \in 1..MaxReady : handler[i] = "failed"
        /\ \E i \in 1..MaxReady : sched[i].last \in {"ok", "error"}

\* C18: whenever a cycle has decided on an alert while the bot's session is
\* ready, the client held by the notifier is logged in, the channel lookup
\* gives a channel, and send_rsi_alert does not fail on a missing channel.
C18_AlertDelivered ==
    \A o \in Owners :
        LET c == cyc[o]
        IN  /\ (c.pc = "notify" /\ ready > 0) =>
                 /\ LoggedIn(notifier.client)
                 /\ GetChannel(notifier.client, notifier.channel_id) # None
            /\ Len(c.calls) = 3 => c.exc # "AttributeError"

\* C19: at most one scheduler with the hourly job is armed at any time.
C19_OneHourlyJob ==
    Cardinality({i \in 1..MaxReady : sched[i].state = "armed"}) <= 1

====
